---- MODULE Spec2Model ----
(***************************************************************************)
(* DS4 -> UR10 teleoperation (src/ds4_ur10_teleop_2.py).                   *)
(*                                                                         *)
(* Two threads share the UR10DS4Teleop object without any lock:            *)
(*   - the listener thread (main thread, controller.listen()) dispatches   *)
(*     one input event at a time to an on_* callback;                      *)
(*   - the motion thread runs _motion_control_loop.                        *)
(*                                                                         *)
(* Numbers.  A raw sample is an integer in -RawMax..RawMax.  A joystick    *)
(* field holds the exact rational  n / One  with One = 9 * RawMax, which   *)
(* is what (|raw|/32767 - 0.1) / (1 - 0.1) evaluates to.  A velocity       *)
(* component is the exact rational  n / (1000 * One).                      *)
(*                                                                         *)
(* Specifications.                                                         *)
(*   Spec          both threads, axis events, buttons and Ctrl-C           *)
(*   SpecObserved  both threads and axis events, the callbacks observed    *)
(*   SpecStartup   Spec from before the object is constructed              *)
(*   SpecFair      buttons, Ctrl-C and a fairly scheduled motion thread    *)
(*   SpecSynth     the motion thread over fields that do not change        *)
(*   SpecDeadzone  the listener filtering samples from all over an axis    *)
(*   SpecScenario  the left stick pushed to 32767 and released             *)
(***************************************************************************)
EXTENDS Integers, Sequences, FiniteSets, TLC

\* ------------------------------------------------------------------ numbers
RawMax == 32767
DeadzoneNum == 1
DeadzoneDen == 10
VelScaleMilli == 100
EpsMilli == 1

\* 1.0 as a joystick field value
One == (DeadzoneDen - DeadzoneNum) * RawMax

Abs(x) == IF x < 0 THEN -x ELSE x

\* _apply_deadzone as it would be with the threshold left out of line 93:
\* sign * abs(value) / (1 - self.deadzone)
ApplyDeadzoneNoThreshold(value) ==
    IF Abs(value) * DeadzoneDen < DeadzoneNum * RawMax
    THEN 0
    ELSE (IF value > 0 THEN 1 ELSE -1) * (Abs(value) * DeadzoneDen)

\* _apply_deadzone as it would be without the division of line 93:
\* sign * (abs(value) - self.deadzone)
ApplyDeadzoneUnscaled(value) ==
    IF Abs(value) * DeadzoneDen < DeadzoneNum * RawMax
    THEN 0
    ELSE (IF value > 0 THEN 1 ELSE -1)
         * (((Abs(value) * DeadzoneDen - DeadzoneNum * RawMax)
             * (DeadzoneDen - DeadzoneNum)) \div DeadzoneDen)

\* _apply_deadzone(value / 32767.0), value the raw sample; the result is the
\* numerator over One
ApplyDeadzone(value) ==
    IF Abs(value) * DeadzoneDen < DeadzoneNum * RawMax
    THEN 0
    ELSE (IF value > 0 THEN 1 ELSE -1)
         * (Abs(value) * DeadzoneDen - DeadzoneNum * RawMax)

\* the test of line 122 as it would be without abs()
AnyMotionSigned(cmd) == \E i \in 1..Len(cmd) : cmd[i] > EpsMilli * One

\* any(abs(v) > 0.001 for v in velocity_cmd)
AnyMotion(cmd) == \E i \in 1..Len(cmd) : Abs(cmd[i]) > EpsMilli * One

\* ------------------------------------------------------------------- bounds
\* events waiting in the joystick device while the listener is in a handler
MaxQueue == 1
\* raw samples taken at equal distances over half an axis
GridPoints == 15
\* axis, trigger and release events delivered in one run
MaxAxisEvents == 2

\* samples the Input Event Source (pyPS4Controller) hands to the callbacks:
\* negative for up and left, positive for down and right, and the whole axis
\* above its rest value -32767 for an L2 or R2 press.  3276 is the last
\* sample inside the dead zone; 3571 is outside it and gives a velocity just
\* below 0.001.
NegSamples == {-RawMax, -3276}
PosSamples == {3276, RawMax}
NearEpsSamples == {3276, 3571, RawMax}
AxisSamples == {1 - RawMax, 0, RawMax}

Buttons == {"triangle", "square", "options"}

\* -------------------------------------------------------------------- state
VARIABLES
    running,
    \* self.velocity_scale, in thousandths
    velocity_scale,
    left_x, left_y, right_x, right_y,
    l1_value, l2_value, r1_value, r2_value,
    \* listener thread
    axisEvents, inbox, lpc, handler, hcmds,
    \* observer of the listener thread: the axis callback called last, and
    \* the values the joystick fields have had since the motion thread began
    \* its current tick, other than the ones they have now
    logEvents, event, held,
    \* motion thread
    cpc, tmp, z_velocity, yaw_velocity, velocity_cmd, sent, errorReported

input == <<left_x, left_y, right_x, right_y,
           l1_value, l2_value, r1_value, r2_value>>
listener == <<inbox, lpc, handler, hcmds>>
delivery == <<axisEvents, logEvents, event, held>>
motion == <<cpc, tmp, z_velocity, yaw_velocity, velocity_cmd, sent,
            errorReported>>
vars == <<running, velocity_scale, input, delivery, listener, motion>>

\* the process is gone once the listener has left listen()
Alive == lpc # "exited"

\* the threads as __init__ leaves them
Constructed ==
    /\ running = TRUE
    /\ axisEvents = 0
    /\ inbox = <<>>
    /\ lpc = "idle"
    /\ handler = "none"
    /\ hcmds = <<>>
    /\ cpc = "while"
    /\ tmp = 0 /\ z_velocity = 0 /\ yaw_velocity = 0
    /\ velocity_cmd = <<>>
    /\ sent = <<>>
    /\ errorReported = FALSE
    /\ event = <<>>
    /\ held = {}

Start ==
    /\ Constructed
    /\ velocity_scale = VelScaleMilli
    /\ left_x = 0 /\ left_y = 0 /\ right_x = 0 /\ right_y = 0
    /\ l1_value = 0 /\ l2_value = 0 /\ r1_value = 0 /\ r2_value = 0

Init == Start /\ logEvents = FALSE

\* ------------------------------------------------- listener: axis callbacks
\* listen() reads one event, calls its callback, and only then reads the next
Dispatching == lpc = "idle"

\* one more axis, trigger or release event is read from the device and its
\* callback called; with logEvents set, event notes the callback and sample
Delivered(name, value) ==
    /\ Dispatching
    /\ axisEvents < MaxAxisEvents
    /\ axisEvents' = axisEvents + 1
    /\ event' = IF logEvents THEN <<name, value>> ELSE event
    /\ held' = IF logEvents THEN held \cup {input} ELSE held
    /\ UNCHANGED logEvents

on_L3_up(value) ==
    /\ Delivered("on_L3_up", value)
    /\ left_y' = ApplyDeadzone(value)
    /\ UNCHANGED <<running, velocity_scale, left_x, right_x, right_y,
                   l1_value, l2_value, r1_value, r2_value, listener, motion>>

on_L3_down(value) ==
    /\ Delivered("on_L3_down", value)
    /\ left_y' = ApplyDeadzone(value)
    /\ UNCHANGED <<running, velocity_scale, left_x, right_x, right_y,
                   l1_value, l2_value, r1_value, r2_value, listener, motion>>

on_L3_left(value) ==
    /\ Delivered("on_L3_left", value)
    /\ left_x' = ApplyDeadzone(value)
    /\ UNCHANGED <<running, velocity_scale, left_y, right_x, right_y,
                   l1_value, l2_value, r1_value, r2_value, listener, motion>>

on_L3_right(value) ==
    /\ Delivered("on_L3_right", value)
    /\ left_x' = ApplyDeadzone(value)
    /\ UNCHANGED <<running, velocity_scale, left_y, right_x, right_y,
                   l1_value, l2_value, r1_value, r2_value, listener, motion>>

\* on_L3_y_at_rest as it would be if it reset the X field, the way the
\* right stick's at-rest callbacks reset fields of other controls
on_L3_y_at_rest_other_field ==
    /\ Delivered("on_L3_y_at_rest", 0)
    /\ left_x' = 0
    /\ UNCHANGED <<running, velocity_scale, left_y, right_x, right_y,
                   l1_value, l2_value, r1_value, r2_value, listener, motion>>

on_L3_y_at_rest ==
    /\ Delivered("on_L3_y_at_rest", 0)
    /\ left_y' = 0
    /\ UNCHANGED <<running, velocity_scale, left_x, right_x, right_y,
                   l1_value, l2_value, r1_value, r2_value, listener, motion>>

on_L3_x_at_rest ==
    /\ Delivered("on_L3_x_at_rest", 0)
    /\ left_x' = 0
    /\ UNCHANGED <<running, velocity_scale, left_y, right_x, right_y,
                   l1_value, l2_value, r1_value, r2_value, listener, motion>>

\* the right-stick movement callbacks write r2_value and l2_value
on_R3_up(value) ==
    /\ Delivered("on_R3_up", value)
    /\ r2_value' = 0
    /\ UNCHANGED <<running, velocity_scale, left_x, left_y, right_x, right_y,
                   l1_value, l2_value, r1_value, listener, motion>>

on_R3_down(value) ==
    /\ Delivered("on_R3_down", value)
    /\ r2_value' = ApplyDeadzone(value)
    /\ UNCHANGED <<running, velocity_scale, left_x, left_y, right_x, right_y,
                   l1_value, l2_value, r1_value, listener, motion>>

on_R3_left(value) ==
    /\ Delivered("on_R3_left", value)
    /\ l2_value' = 0
    /\ UNCHANGED <<running, velocity_scale, left_x, left_y, right_x, right_y,
                   l1_value, r1_value, r2_value, listener, motion>>

on_R3_right(value) ==
    /\ Delivered("on_R3_right", value)
    /\ l2_value' = ApplyDeadzone(value)
    /\ UNCHANGED <<running, velocity_scale, left_x, left_y, right_x, right_y,
                   l1_value, r1_value, r2_value, listener, motion>>

on_R3_y_at_rest ==
    /\ Delivered("on_R3_y_at_rest", 0)
    /\ right_y' = 0
    /\ UNCHANGED <<running, velocity_scale, left_x, left_y, right_x, l1_value,
                   l2_value, r1_value, r2_value, listener, motion>>

on_R3_x_at_rest ==
    /\ Delivered("on_R3_x_at_rest", 0)
    /\ right_x' = 0
    /\ UNCHANGED <<running, velocity_scale, left_x, left_y, right_y, l1_value,
                   l2_value, r1_value, r2_value, listener, motion>>

\* the event source calls on_L1_press() bare: value is the default 32767.0
on_L1_press ==
    /\ Delivered("on_L1_press", RawMax)
    /\ l1_value' = ApplyDeadzone(RawMax)
    /\ UNCHANGED <<running, velocity_scale, left_x, left_y, right_x, right_y,
                   l2_value, r1_value, r2_value, listener, motion>>

on_L1_release ==
    /\ Delivered("on_L1_release", 0)
    /\ l1_value' = 0
    /\ UNCHANGED <<running, velocity_scale, left_x, left_y, right_x, right_y,
                   l2_value, r1_value, r2_value, listener, motion>>

\* the L2 and R2 callbacks write right_x and right_y
on_L2_press(value) ==
    /\ Delivered("on_L2_press", value)
    /\ right_x' = ApplyDeadzone(value)
    /\ UNCHANGED <<running, velocity_scale, left_x, left_y, right_y, l1_value,
                   l2_value, r1_value, r2_value, listener, motion>>

on_L2_release ==
    /\ Delivered("on_L2_release", 0)
    /\ right_x' = 0
    /\ UNCHANGED <<running, velocity_scale, left_x, left_y, right_y, l1_value,
                   l2_value, r1_value, r2_value, listener, motion>>

on_R1_press ==
    /\ Delivered("on_R1_press", RawMax)
    /\ r1_value' = ApplyDeadzone(RawMax)
    /\ UNCHANGED <<running, velocity_scale, left_x, left_y, right_x, right_y,
                   l1_value, l2_value, r2_value, listener, motion>>

on_R1_release ==
    /\ Delivered("on_R1_release", 0)
    /\ r1_value' = 0
    /\ UNCHANGED <<running, velocity_scale, left_x, left_y, right_x, right_y,
                   l1_value, l2_value, r2_value, listener, motion>>

on_R2_press(value) ==
    /\ Delivered("on_R2_press", value)
    /\ right_y' = ApplyDeadzone(value)
    /\ UNCHANGED <<running, velocity_scale, left_x, left_y, right_x, l1_value,
                   l2_value, r1_value, r2_value, listener, motion>>

on_R2_release ==
    /\ Delivered("on_R2_release", 0)
    /\ right_y' = 0
    /\ UNCHANGED <<running, velocity_scale, left_x, left_y, right_x, l1_value,
                   l2_value, r1_value, r2_value, listener, motion>>

\* ---------------------------------------------- listener: button callbacks
\* self.home_joint_position, in hundredths of a radian
home_joint_position == <<-157, -157, -157, -157, 157, 0>>

\* the calls a callback makes on rtde_c, as hcmds lists them
SpeedStop == <<"speedStop">>
StopScript == <<"stopScript">>
MoveJ(q) == <<"moveJ", q>>

\* a button is pressed: its event waits in the device until listen() reads it
Press(b) ==
    /\ Alive
    /\ Len(inbox) < MaxQueue
    /\ inbox' = Append(inbox, b)
    /\ UNCHANGED <<running, velocity_scale, input, delivery, lpc, handler,
                   hcmds, motion>>

\* listen() reads the press of button b and calls its callback
Read(b) ==
    /\ Dispatching
    /\ inbox # <<>>
    /\ Head(inbox) = b
    /\ handler' = b

\* the call on rtde_c returns and the callback goes on to next, or it raises:
\* the exception leaves the callback and listen(), main() reports it and
\* returns, the process and its daemon thread end, and the events still
\* waiting in the device are never read
Returns(ok, waiting, next) ==
    /\ lpc' = IF ok THEN next ELSE "exited"
    /\ inbox' = IF ok THEN waiting ELSE <<>>

\* on_triangle_press: print, rtde_c.speedStop()
on_triangle_press ==
    /\ Read("triangle")
    /\ hcmds' = <<SpeedStop>>
    /\ \E ok \in BOOLEAN : Returns(ok, Tail(inbox), "tri_moveJ")
    /\ UNCHANGED <<running, velocity_scale, input, delivery, motion>>

\* on_triangle_press as it would be with a pose other than
\* self.home_joint_position for the target of moveJ
triangle_moveJ_other_pose ==
    /\ lpc = "tri_moveJ"
    /\ hcmds' = Append(hcmds, MoveJ(<<0, -157, 0, -157, 0, 0>>))
    /\ lpc' = "tri_wait"
    /\ UNCHANGED <<running, velocity_scale, input, delivery, inbox, handler,
                   motion>>

\* rtde_c.moveJ(home_joint_position, 1.05, 1.4) is issued and blocks
triangle_moveJ ==
    /\ lpc = "tri_moveJ"
    /\ hcmds' = Append(hcmds, MoveJ(home_joint_position))
    /\ lpc' = "tri_wait"
    /\ UNCHANGED <<running, velocity_scale, input, delivery, inbox, handler,
                   motion>>

\* moveJ returns (print "Reached home") or raises
triangle_return ==
    /\ lpc = "tri_wait"
    /\ \E ok \in BOOLEAN : Returns(ok, inbox, "idle")
    /\ UNCHANGED <<running, velocity_scale, input, delivery, handler, hcmds,
                   motion>>

\* on_square_press: print, rtde_c.speedStop()
on_square_press ==
    /\ Read("square")
    /\ hcmds' = <<SpeedStop>>
    /\ \E ok \in BOOLEAN : Returns(ok, Tail(inbox), "sq_stopScript")
    /\ UNCHANGED <<running, velocity_scale, input, delivery, motion>>

\* on_square_press as it would be without line 154
square_returns_early ==
    /\ lpc = "sq_stopScript"
    /\ Returns(TRUE, inbox, "idle")
    /\ UNCHANGED <<running, velocity_scale, input, delivery, handler, hcmds,
                   motion>>

\* rtde_c.stopScript(), then the callback returns
square_stopScript ==
    /\ lpc = "sq_stopScript"
    /\ hcmds' = Append(hcmds, StopScript)
    /\ \E ok \in BOOLEAN : Returns(ok, inbox, "idle")
    /\ UNCHANGED <<running, velocity_scale, input, delivery, handler, motion>>

\* on_options_press: print, self.running = False
on_options_press ==
    /\ Read("options")
    /\ hcmds' = <<>>
    /\ running' = FALSE
    /\ Returns(TRUE, Tail(inbox), "opt_speedStop")
    /\ UNCHANGED <<velocity_scale, input, delivery, motion>>

\* rtde_c.speedStop()
options_speedStop ==
    /\ lpc = "opt_speedStop"
    /\ hcmds' = Append(hcmds, SpeedStop)
    /\ \E ok \in BOOLEAN : Returns(ok, inbox, "opt_stopScript")
    /\ UNCHANGED <<running, velocity_scale, input, delivery, handler, motion>>

\* rtde_c.stopScript(); the process is still there when the call has returned
options_stopScript ==
    /\ lpc = "opt_stopScript"
    /\ hcmds' = Append(hcmds, StopScript)
    /\ \E ok \in BOOLEAN : Returns(ok, inbox, "opt_exit")
    /\ UNCHANGED <<running, velocity_scale, input, delivery, handler, motion>>

\* sys.exit(0): SystemExit leaves the callback, listen() and main(), and the
\* interpreter ends the process and its daemon thread
options_exit ==
    /\ lpc = "opt_exit"
    /\ Returns(FALSE, inbox, "exited")
    /\ UNCHANGED <<running, velocity_scale, input, delivery, handler, hcmds,
                   motion>>

\* Ctrl-C: KeyboardInterrupt is raised in the main thread, wherever it is in
\* listen() or in a callback; main() prints "Interrupted by user" and returns,
\* and the process ends.  hcmds lists the calls the except clause makes.
keyboard_interrupt ==
    /\ Alive
    /\ handler' = "KeyboardInterrupt"
    /\ hcmds' = <<>>
    /\ Returns(FALSE, inbox, "exited")
    /\ UNCHANGED <<running, velocity_scale, input, delivery, motion>>

\* ------------------------------------------------ motion thread: one tick
\* x * vel_scale, x a joystick field value (or a difference of two);
\* vel_scale = self.velocity_scale, which nothing assigns after __init__
Scaled(x) == x * velocity_scale

\* line 100 as it would be with while True:
loop_while_ignores_running ==
    /\ Alive
    /\ cpc = "while"
    /\ cpc' = "rd_l1"
    /\ tmp' = 0 /\ z_velocity' = 0 /\ yaw_velocity' = 0
    /\ velocity_cmd' = <<>>
    /\ sent' = <<>>
    /\ held' = {}
    /\ UNCHANGED <<running, velocity_scale, input, axisEvents, logEvents,
                   event, listener, errorReported>>

\* while self.running:  (the locals of the previous tick are dead here)
loop_while ==
    /\ Alive
    /\ cpc = "while"
    /\ IF running
       THEN /\ cpc' = "rd_l1"
            /\ tmp' = 0 /\ z_velocity' = 0 /\ yaw_velocity' = 0
            /\ velocity_cmd' = <<>>
            /\ sent' = <<>>
            /\ held' = {}
       ELSE /\ cpc' = "done"
            /\ UNCHANGED <<tmp, z_velocity, yaw_velocity, velocity_cmd, sent,
                           held>>
    /\ UNCHANGED <<running, velocity_scale, input, axisEvents, logEvents,
                   event, listener, errorReported>>

\* z_velocity = (self.l1_value - self.l2_value) * vel_scale
read_l1 ==
    /\ Alive
    /\ cpc = "rd_l1"
    /\ tmp' = l1_value
    /\ cpc' = "rd_l2"
    /\ UNCHANGED <<running, velocity_scale, input, delivery, listener,
                   z_velocity, yaw_velocity, velocity_cmd, sent,
                   errorReported>>

read_l2 ==
    /\ Alive
    /\ cpc = "rd_l2"
    /\ z_velocity' = Scaled(tmp - l2_value)
    /\ tmp' = 0
    /\ cpc' = "rd_r1"
    /\ UNCHANGED <<running, velocity_scale, input, delivery, listener,
                   yaw_velocity, velocity_cmd, sent, errorReported>>

\* yaw_velocity = (self.r1_value - self.r2_value) * vel_scale
read_r1 ==
    /\ Alive
    /\ cpc = "rd_r1"
    /\ tmp' = r1_value
    /\ cpc' = "rd_r2"
    /\ UNCHANGED <<running, velocity_scale, input, delivery, listener,
                   z_velocity, yaw_velocity, velocity_cmd, sent,
                   errorReported>>

read_r2 ==
    /\ Alive
    /\ cpc = "rd_r2"
    /\ yaw_velocity' = Scaled(tmp - r2_value)
    /\ tmp' = 0
    /\ cpc' = "rd_left_y"
    /\ UNCHANGED <<running, velocity_scale, input, delivery, listener,
                   z_velocity, velocity_cmd, sent, errorReported>>

\* velocity_cmd = [-left_y*s, -left_x*s, z_velocity, right_y*s, -right_x*s,
\*                 yaw_velocity], the elements evaluated left to right
read_left_y ==
    /\ Alive
    /\ cpc = "rd_left_y"
    /\ velocity_cmd' = <<Scaled(-left_y)>>
    /\ cpc' = "rd_left_x"
    /\ UNCHANGED <<running, velocity_scale, input, delivery, listener, tmp,
                   z_velocity, yaw_velocity, sent, errorReported>>

\* line 115 as it would be with left_y for left_x
read_left_x_reads_left_y ==
    /\ Alive
    /\ cpc = "rd_left_x"
    /\ velocity_cmd' = velocity_cmd \o <<Scaled(-left_y), z_velocity>>
    /\ cpc' = "rd_right_y"
    /\ UNCHANGED <<running, velocity_scale, input, delivery, listener, tmp,
                   z_velocity, yaw_velocity, sent, errorReported>>

read_left_x ==
    /\ Alive
    /\ cpc = "rd_left_x"
    /\ velocity_cmd' = velocity_cmd \o <<Scaled(-left_x), z_velocity>>
    /\ cpc' = "rd_right_y"
    /\ UNCHANGED <<running, velocity_scale, input, delivery, listener, tmp,
                   z_velocity, yaw_velocity, sent, errorReported>>

\* line 116 as it would be without the cross-mapping: right_x for roll
read_right_y_uncrossed ==
    /\ Alive
    /\ cpc = "rd_right_y"
    /\ velocity_cmd' = Append(velocity_cmd, Scaled(right_x))
    /\ cpc' = "rd_right_x"
    /\ UNCHANGED <<running, velocity_scale, input, delivery, listener, tmp,
                   z_velocity, yaw_velocity, sent, errorReported>>

read_right_y ==
    /\ Alive
    /\ cpc = "rd_right_y"
    /\ velocity_cmd' = Append(velocity_cmd, Scaled(right_y))
    /\ cpc' = "rd_right_x"
    /\ UNCHANGED <<running, velocity_scale, input, delivery, listener, tmp,
                   z_velocity, yaw_velocity, sent, errorReported>>

read_right_x ==
    /\ Alive
    /\ cpc = "rd_right_x"
    /\ velocity_cmd' = velocity_cmd \o <<Scaled(-right_x), yaw_velocity>>
    /\ cpc' = "send"
    /\ UNCHANGED <<running, velocity_scale, input, delivery, listener, tmp,
                   z_velocity, yaw_velocity, sent, errorReported>>

\* if any(...): rtde_c.speedL(velocity_cmd, acceleration, dt * 2)
\* else:        rtde_c.speedStop()
\* then time.sleep(dt); a call that raises enters the except clause.
\* sent lists the calls the current tick has made on rtde_c.
loop_send ==
    /\ Alive
    /\ cpc = "send"
    /\ sent' = Append(sent, IF AnyMotion(velocity_cmd) THEN "speedL"
                                                       ELSE "speedStop")
    /\ \E ok \in BOOLEAN : cpc' = IF ok THEN "while" ELSE "except"
    /\ UNCHANGED <<running, velocity_scale, input, delivery, listener, tmp,
                   z_velocity, yaw_velocity, velocity_cmd, errorReported>>

\* the except clause as it would be with continue for lines 131-132
loop_except_retry ==
    /\ Alive
    /\ cpc = "except"
    /\ errorReported' = TRUE
    /\ cpc' = "while"
    /\ UNCHANGED <<running, velocity_scale, input, delivery, listener, tmp,
                   z_velocity, yaw_velocity, velocity_cmd, sent>>

\* except Exception as e: print(...); self.running = False; break
loop_except ==
    /\ Alive
    /\ cpc = "except"
    /\ errorReported' = TRUE
    /\ running' = FALSE
    /\ cpc' = "done"
    /\ UNCHANGED <<velocity_scale, input, delivery, listener, tmp, z_velocity,
                   yaw_velocity, velocity_cmd, sent>>

\* ------------------------------------------------------------ specification
AxisEvent ==
    \/ \E value \in NegSamples : on_L3_up(value)
    \/ \E value \in NearEpsSamples : on_L3_down(value)
    \/ \E value \in NegSamples : on_L3_left(value)
    \/ \E value \in PosSamples : on_L3_right(value)
    \/ on_L3_y_at_rest
    \/ on_L3_x_at_rest
    \/ \E value \in NegSamples : on_R3_up(value)
    \/ \E value \in PosSamples : on_R3_down(value)
    \/ \E value \in NegSamples : on_R3_left(value)
    \/ \E value \in PosSamples : on_R3_right(value)
    \/ on_R3_y_at_rest
    \/ on_R3_x_at_rest
    \/ on_L1_press
    \/ on_L1_release
    \/ \E value \in AxisSamples : on_L2_press(value)
    \/ on_L2_release
    \/ on_R1_press
    \/ on_R1_release
    \/ \E value \in AxisSamples : on_R2_press(value)
    \/ on_R2_release

ButtonEvent ==
    \/ \E b \in Buttons : Press(b)
    \/ on_triangle_press
    \/ triangle_moveJ
    \/ triangle_return
    \/ on_square_press
    \/ square_stopScript
    \/ on_options_press
    \/ options_speedStop
    \/ options_stopScript
    \/ options_exit

Tick ==
    \/ loop_while
    \/ read_l1
    \/ read_l2
    \/ read_r1
    \/ read_r2
    \/ read_left_y
    \/ read_left_x
    \/ read_right_y
    \/ read_right_x
    \/ loop_send
    \/ loop_except

Next == AxisEvent \/ ButtonEvent \/ keyboard_interrupt \/ Tick

Spec == Init /\ [][Next]_vars

\* the same program while no button is pressed, its axis callbacks observed
InitObserved == Start /\ logEvents = TRUE

NextObserved == AxisEvent \/ Tick

SpecObserved == InitObserved /\ [][NextObserved]_vars

\* the buttons and the motion thread with the sticks at rest, the motion
\* thread scheduled fairly: a step it can take is taken in the end.  Nothing
\* is asked of the listener thread, which waits on the device and on moveJ.
NextShutdown == ButtonEvent \/ keyboard_interrupt \/ Tick

SpecFair == Init /\ [][NextShutdown]_vars /\ WF_vars(Tick)

\* ------------------------------------------------------------------ startup
\* main() before the object exists: no thread but the main thread, which is
\* about to call UR10DS4Teleop(...)
InitStartup ==
    /\ running = TRUE
    /\ velocity_scale = VelScaleMilli
    /\ left_x = 0 /\ left_y = 0 /\ right_x = 0 /\ right_y = 0
    /\ l1_value = 0 /\ l2_value = 0 /\ r1_value = 0 /\ r2_value = 0
    /\ axisEvents = 0
    /\ inbox = <<>>
    /\ lpc = "construct"
    /\ handler = "none"
    /\ hcmds = <<>>
    /\ cpc = "unstarted"
    /\ tmp = 0 /\ z_velocity = 0 /\ yaw_velocity = 0
    /\ velocity_cmd = <<>>
    /\ sent = <<>>
    /\ errorReported = FALSE
    /\ logEvents = FALSE
    /\ event = <<>>
    /\ held = {}

\* __init__: Controller.__init__, RTDEControlInterface(robot_ip) and
\* RTDEReceiveInterface(robot_ip); a connection that fails raises, main()
\* prints the error and the process ends; otherwise __init__ sets the fields
\* and starts the motion thread, and main() goes on to controller.listen()
construct ==
    /\ lpc = "construct"
    /\ \E ok \in BOOLEAN :
           IF ok
           THEN /\ lpc' = "listen"
                /\ cpc' = "while"
                /\ UNCHANGED handler
           ELSE /\ lpc' = "exited"
                /\ handler' = "connection failure"
                /\ UNCHANGED cpc
    /\ UNCHANGED <<running, velocity_scale, input, delivery, inbox, hcmds,
                   tmp, z_velocity, yaw_velocity, velocity_cmd, sent,
                   errorReported>>

\* controller.listen() waits for the input device and opens it, and then
\* reads events; a device that is not there ends listen() and the process
listen ==
    /\ lpc = "listen"
    /\ \E ok \in BOOLEAN :
           IF ok
           THEN /\ lpc' = "idle"
                /\ UNCHANGED handler
           ELSE /\ lpc' = "exited"
                /\ handler' = "device failure"
    /\ UNCHANGED <<running, velocity_scale, input, delivery, inbox, hcmds,
                   motion>>

NextStartup == construct \/ listen \/ Next

SpecStartup == InitStartup /\ [][NextStartup]_vars

\* the motion thread alone, over joystick fields and a velocity scale that
\* stay as they are: the values _apply_deadzone gives for a stick at either
\* end, at rest and half way, and for a trigger released and fully pressed
StickValues == {ApplyDeadzone(v) : v \in {-RawMax, 0, 16384, RawMax}}
TriggerValues == {ApplyDeadzone(v) : v \in {0, RawMax}}
ScaleSamples == {VelScaleMilli, 1000}

InitSynth ==
    /\ Constructed
    /\ logEvents = FALSE
    /\ velocity_scale \in ScaleSamples
    /\ left_x \in StickValues /\ left_y \in StickValues
    /\ right_x \in StickValues /\ right_y \in StickValues
    /\ l1_value \in TriggerValues /\ l2_value \in TriggerValues
    /\ r1_value \in TriggerValues /\ r2_value \in TriggerValues

NextSynth == Tick

SpecSynth == InitSynth /\ [][NextSynth]_vars

\* the listener alone, handing samples from all over an axis to callbacks
\* that filter them: 3276 and 3277 are the samples on either side of the
\* threshold
PosGrid ==
    {(k * RawMax) \div GridPoints : k \in 1..GridPoints} \cup {1, 3276, 3277}
NegGrid == {-value : value \in PosGrid}
Grid == (NegGrid \cup {0} \cup PosGrid) \ {-RawMax}

NextDeadzone ==
    \/ \E value \in NegGrid : on_L3_up(value)
    \/ \E value \in PosGrid : on_L3_down(value)
    \/ \E value \in Grid : on_L2_press(value)

SpecDeadzone == InitObserved /\ [][NextDeadzone]_vars

\* the end-to-end scenario: the left stick's Y axis goes to the raw sample
\* 32767 and then back to rest, while the motion thread ticks as it will.
\* The event source hands a positive sample to on_L3_down; on_L3_up, which
\* has the same body, stands for a source that hands it to on_L3_up.
NextScenario ==
    \/ axisEvents = 0 /\ on_L3_up(RawMax)
    \/ axisEvents = 0 /\ on_L3_down(RawMax)
    \/ axisEvents = 1 /\ on_L3_y_at_rest
    \/ Tick

SpecScenario == InitObserved /\ [][NextScenario]_vars

\* ------------------------------------------------------------------- claims
\* this step is a call of the motion thread on rtde_c, made with a velocity
\* vector that has a component above 0.001: a speedL call
StreamAttempt ==
    /\ cpc = "send"
    /\ cpc' # "send"
    /\ \E i \in 1..Len(velocity_cmd) : Abs(velocity_cmd[i]) > One

\* the Home move is in flight: moveJ has been issued and has not returned
HomeInFlight == lpc = "tri_wait"

\* on_square_press has run to its end and no later button callback has started
EstopRan == handler = "square" /\ lpc = "idle"

\* C1: while a Home move is in flight the motion thread makes no speedL call.
C1_HomeExcludesStreaming == [][HomeInFlight => ~StreamAttempt]_vars

\* C2: once the Emergency-stop callback has run, the shutdown flag is set and
\* the motion thread makes no further speedL call.
C2_EstopTerminatesLoop == [][EstopRan => (~running /\ ~StreamAttempt)]_vars

\* C3: the calls on_square_press makes are speedStop and then stopScript,
\* one of each: at every moment they are a prefix of that sequence (a call
\* that raises ends the callback there), and the whole of it once the
\* callback has returned, whatever the motion thread is doing.
C3_EstopStopThenAbort ==
    handler = "square" =>
        /\ hcmds \in {<<SpeedStop>>, <<SpeedStop, StopScript>>}
        /\ lpc = "sq_stopScript" => hcmds = <<SpeedStop>>
        /\ lpc = "idle" => hcmds = <<SpeedStop, StopScript>>

\* C3 witness: the callback has run to its end while the motion thread was
\* streaming (the last call of its tick was speedL)
C3_Witness ==
    /\ EstopRan
    /\ hcmds = <<SpeedStop, StopScript>>
    /\ sent = <<"speedL">>

\* C4: a motion thread that ended on a failed call has made a speedStop call
\* after the failed one.
C4_BestEffortStop ==
    (cpc = "done" /\ errorReported) => (Len(sent) = 2 /\ sent[2] = "speedStop")

\* a call of the current tick raised
LoopFailed == cpc = "except" \/ errorReported

\* C5: after a call of the motion thread has raised, the thread only goes on
\* to set running to False and end: it makes no further call (no retry, no
\* speedL), and running stays False, whatever events follow.
C5_FailureTerminates ==
    [][LoopFailed => /\ LoopFailed'
                     /\ cpc' \in {"except", "done"}
                     /\ sent' = sent
                     /\ cpc' = "done" => ~running']_vars

\* C5 witness: the thread has ended on a failure, and an axis event has been
\* delivered since the failing tick read the sticks
C5_Witness ==
    /\ cpc = "done" /\ errorReported /\ ~running
    /\ sent = <<"speedStop">>
    /\ left_y # 0

\* C6: a tick that completed without a failure made exactly one call:
\* speedL if a component of its six-element velocity vector is above 0.001
\* (n / (1000 * One) > 1/1000), speedStop otherwise.
C6_OneCommandPerTick ==
    (cpc = "while" /\ sent # <<>>) =>
        /\ Len(velocity_cmd) = 6
        /\ Len(sent) = 1
        /\ sent[1] = "speedL" <=>
               \E i \in 1..6 : Abs(velocity_cmd[i]) > One
        /\ sent[1] = "speedStop" <=>
               \A i \in 1..6 : Abs(velocity_cmd[i]) <= One

\* C6 witness: a completed tick that streamed on one axis only
C6_Witness ==
    /\ cpc = "while"
    /\ sent = <<"speedL">>
    /\ velocity_cmd = <<VelScaleMilli * One, 0, 0, 0, 0, 0>>

\* C7: after a release or at-rest callback, the field that the press or
\* movement callbacks of the same control write is 0.
C7_ReleaseZeroesOwnField ==
    /\ event = <<"on_L3_y_at_rest", 0>> => left_y = 0
    /\ event = <<"on_L3_x_at_rest", 0>> => left_x = 0
    /\ event = <<"on_R3_y_at_rest", 0>> => r2_value = 0
    /\ event = <<"on_R3_x_at_rest", 0>> => l2_value = 0
    /\ event = <<"on_L1_release", 0>> => l1_value = 0
    /\ event = <<"on_L2_release", 0>> => right_x = 0
    /\ event = <<"on_R1_release", 0>> => r1_value = 0
    /\ event = <<"on_R2_release", 0>> => right_y = 0

\* the place in input of the field that belongs to the control of a callback
OwnField(name) ==
    CASE name \in {"on_L3_left", "on_L3_right"} -> 1
      [] name \in {"on_L3_up", "on_L3_down"} -> 2
      [] name \in {"on_R3_left", "on_R3_right"} -> 3
      [] name \in {"on_R3_up", "on_R3_down"} -> 4
      [] name = "on_L1_press" -> 5
      [] name = "on_L2_press" -> 6
      [] name = "on_R1_press" -> 7
      [] name = "on_R2_press" -> 8

\* C8: an axis or trigger callback stores the filtered sample in the field of
\* its own control (left stick: left_x, left_y; right stick: right_x,
\* right_y; L1: l1_value; L2: l2_value; R1: r1_value; R2: r2_value) and
\* leaves the other seven fields as they were.
C8_EventWritesOwnField ==
    [][(axisEvents' # axisEvents /\ event'[2] # 0) =>
           input' = [input EXCEPT ![OwnField(event'[1])] =
                                       ApplyDeadzone(event'[2])]]_vars

C10_EstopPreemptsHome ==
    [][(HomeInFlight /\ lpc' = "idle") =>
           \A i \in 1..Len(inbox) : inbox[i] # "square"]_vars

\* on_options_press has made both its calls on rtde_c: speedStop, stopScript
ExitAborted == handler = "options" /\ hcmds = <<SpeedStop, StopScript>>

\* C11: Options does what Square does, speedStop and then stopScript with
\* running set to False, and once its stopScript call has been made the
\* motion thread makes no speedL call, wherever its tick was when Options
\* was pressed.
C11_ExitStopsStreaming ==
    [][/\ handler' = "options" => (~running' /\ Len(hcmds') <= 2)
       /\ ExitAborted => ~StreamAttempt]_vars

\* C12: once running is False and no callback is in progress, the listener
\* calls no callback that makes a call on rtde_c: a Triangle press that
\* follows a failed tick makes neither the speedStop nor the moveJ call.
C12_NoDispatchAfterShutdown ==
    [][(~running /\ Dispatching) => hcmds' = hcmds]_vars

\* the mapping of the Velocity Command Synthesizer, over the fields in the
\* order of input: lateral, forward, rollAxis, pitchAxis, liftUp, liftDown,
\* yawCcw, yawCw
Synthesize(s, in) ==
    <<-in[2] * s, -in[1] * s, (in[5] - in[6]) * s,
      in[4] * s, -in[3] * s, (in[7] - in[8]) * s>>

\* the component each field drives (x, y, z, roll, pitch, yaw as 1..6) and
\* the sign it drives it with
AxisOf == <<2, 1, 5, 4, 3, 3, 6, 6>>
SignOf == <<-1, -1, -1, 1, 1, -1, 1, -1>>

Filtered == IF event[1] = "on_L2_press" THEN right_x ELSE left_y

\* |value| / 32767 is below the threshold
InDeadzone(value) == Abs(value) * DeadzoneDen < DeadzoneNum * RawMax

\* C14: for the sample v = value / 32767 handed to _apply_deadzone and the
\* threshold d, the result is 0 when |v| < d and sign(v) * (|v| - d) / (1 - d)
\* otherwise (here with both sides multiplied by (1 - d) * One, a field
\* holding n for n / One and a sample holding value for value / 32767);
\* it is 1 at v = 1 and -1 at v = -1, lies in [-1, 1], and no sample of the
\* grid further from 0 gives a result nearer to 0.
C14_DeadzoneContract ==
    event # <<>> =>
        LET value == event[2]
            sign == IF value > 0 THEN 1 ELSE IF value < 0 THEN -1 ELSE 0
        IN  /\ InDeadzone(value) => Filtered = 0
            /\ ~InDeadzone(value) =>
                   Filtered * (DeadzoneDen - DeadzoneNum) =
                       sign * (Abs(value) * DeadzoneDen - DeadzoneNum * RawMax)
                            * (One \div RawMax)
            /\ value = RawMax => Filtered = One
            /\ value = -RawMax => Filtered = -One
            /\ -One <= Filtered /\ Filtered <= One
            /\ \A further \in Grid \cup {-RawMax} :
                   (Abs(further) >= Abs(value)) =>
                       Abs(ApplyDeadzone(further)) >= Abs(Filtered)

\* C14 witness: the first sample outside the dead zone, filtered to
\* (3277/32767 - 0.1) / 0.9 = 3 / One
C14_Witness == event = <<"on_L3_down", 3277>> /\ left_y = 3

\* the callback called last was handed the raw sample 32767 of the left
\* stick's Y axis
FullDeflection == event \in {<<"on_L3_up", RawMax>>, <<"on_L3_down", RawMax>>}

\* this step ends a tick that no callback has run during: the motion thread
\* makes the call of a tick begun after the last event
QuietTickEnds == cpc = "send" /\ cpc' # "send" /\ held = {}

\* C15: from all fields zero, the left stick's Y event with the raw sample
\* 32767 makes left_y 1.0, and the tick after it calls speedL with a vector
\* whose x is -1.0 * velocity_scale and whose other components are 0; the
\* tick after the Y axis at-rest event calls speedStop.
C15_EndToEnd ==
    [][/\ FullDeflection' => left_y' = One
       /\ QuietTickEnds =>
              /\ FullDeflection =>
                     /\ velocity_cmd = <<-One * velocity_scale, 0, 0, 0, 0, 0>>
                     /\ sent' = <<"speedL">>
              /\ event = <<"on_L3_y_at_rest", 0>> =>
                     /\ left_y = 0
                     /\ sent' = <<"speedStop">>]_vars

\* C15 witness: the stick has gone to 32767 and back to rest, and a tick
\* begun after the at-rest event has made its call, speedStop
C15_Witness ==
    /\ event = <<"on_L3_y_at_rest", 0>>
    /\ axisEvents = 2
    /\ held = {}
    /\ cpc = "while"
    /\ sent = <<"speedStop">>

\* C16: a process ended by KeyboardInterrupt has gone the way of Options:
\* running is False and speedStop and then stopScript have been called.
C16_InterruptShutsDown ==
    (lpc = "exited" /\ handler = "KeyboardInterrupt") =>
        (~running /\ hcmds = <<SpeedStop, StopScript>>)

\* the process has ended on a failure to connect to the robot or to open
\* the input device
StartupFailed ==
    lpc = "exited" /\ handler \in {"connection failure", "device failure"}

\* the motion thread has not begun a tick: it does not exist yet, or it is
\* before the first test of running
NoTickYet == cpc = "unstarted" \/ (cpc = "while" /\ sent = <<>>)

\* C17: in a process ended by a failed connection to the robot or a failed
\* opening of the input device the motion thread has begun no tick, and no
\* call has been made on rtde_c.
C17_StartupFailureBeforeLoop == StartupFailed => (NoTickYet /\ hcmds = <<>>)

\* the values the eight fields have had, all at one time, at some moment
\* since the current tick began
HeldDuringTick == held \cup {input}

\* C18 as stated: the vector a tick is about to send is the mapping of the
\* eight values the fields had at one single moment of that tick.
C18_OneInstantSnapshot ==
    cpc = "send" =>
        \E in \in HeldDuringTick :
            velocity_cmd = Synthesize(velocity_scale, in)

\* C18, amended: every component of the vector a tick is about to send is
\* the mapping of values its own fields had at moments of that tick, which
\* need not be the same moment for two fields.
C18_EachFieldDuringTick ==
    cpc = "send" =>
        /\ \E a \in HeldDuringTick : velocity_cmd[1] = -a[2] * velocity_scale
        /\ \E a \in HeldDuringTick : velocity_cmd[2] = -a[1] * velocity_scale
        /\ \E a, b \in HeldDuringTick :
               velocity_cmd[3] = (a[5] - b[6]) * velocity_scale
        /\ \E a \in HeldDuringTick : velocity_cmd[4] = a[4] * velocity_scale
        /\ \E a \in HeldDuringTick : velocity_cmd[5] = -a[3] * velocity_scale
        /\ \E a, b \in HeldDuringTick :
               velocity_cmd[6] = (a[7] - b[8]) * velocity_scale

\* C18 witness: a tick is about to send a vector that mixes moments: the
\* fields never had, all at one time, the values it was built from
C18_Witness ==
    /\ cpc = "send"
    /\ \A in \in HeldDuringTick :
           velocity_cmd # Synthesize(velocity_scale, in)

\* this step is a step of on_triangle_press on the listener thread
HomeStep == handler' = "triangle" /\ lpc' # lpc

\* the calls on_triangle_press has made on rtde_c, at each of its positions
HomeCalls ==
    /\ lpc = "tri_moveJ" => hcmds = <<SpeedStop>>
    /\ lpc \in {"tri_wait", "idle"} =>
           hcmds = <<SpeedStop, MoveJ(home_joint_position)>>
    /\ lpc = "exited" =>
           hcmds \in {<<SpeedStop>>, <<SpeedStop, MoveJ(home_joint_position)>>}

\* C19: on_triangle_press calls speedStop once and then moveJ once, with
\* home_joint_position for its target; it returns ("Reached home") only
\* from the moveJ call; and none of its steps changes a joystick field or
\* running.
C19_HomeStopThenMove ==
    [][/\ handler' = "triangle" => HomeCalls'
       /\ (HomeStep /\ lpc' = "idle") => lpc = "tri_wait"
       /\ HomeStep => UNCHANGED <<running, input>>]_vars

\* C19 witness: Triangle was pressed with a stick off centre; the callback
\* has returned from moveJ, the field and running are as they were
C19_Witness ==
    /\ handler = "triangle"
    /\ lpc = "idle"
    /\ hcmds = <<SpeedStop, MoveJ(home_joint_position)>>
    /\ left_y = -One
    /\ running

\* the motion thread is no more: it has left its loop, or the process has
\* ended and taken its daemon thread with it
LoopTerminated == cpc = "done" \/ ~Alive

\* C20: running, once False, stays False; from then on the motion thread
\* begins no tick, so that the one it may be in is its last; and with the
\* motion thread scheduled fairly it terminates.
C20_ShutdownMonotonicLive ==
    /\ [][~running => ~running']_vars
    /\ [][~running => ~(cpc = "while" /\ cpc' = "rd_l1")]_vars
    /\ ~running ~> LoopTerminated

\* C20 witness: Options was pressed during a tick that went on to its
\* call; the motion thread has since left its loop, the process still there
C20_Witness ==
    /\ ~running
    /\ handler = "options"
    /\ Alive
    /\ cpc = "done"
    /\ ~errorReported
    /\ sent # <<>>

====
